---- MODULE Spec2Model ----
(***************************************************************************)
(* Model of svelte-number-formatter's NumberFormatter class                *)
(* (src/src/NumberFormatter.ts): the four writable stores, the options,    *)
(* the pending isEditing timers and the subscribers of subscribe().        *)
(*                                                                         *)
(* Text is a sequence of one-character strings.  A number is a record      *)
(* [nan, neg, mag, fd]: sign, decimal digits as a natural and the count of *)
(* fraction digits (value = mag / 10^fd), so "-0", ".5" and "5." keep      *)
(* what parseFloat and Intl.NumberFormat make of them.                     *)
(***************************************************************************)
EXTENDS Integers, Sequences, FiniteSets, TLC

VARIABLES options, raw, formatted, validation, isEditing,
          timers, subs, runCalls, lastOp, arg, lastCleaned, lastVerdictOf,
          listeners, gone, nodeValue, params, delivered, commits, fired

vars == <<options, raw, formatted, validation, isEditing,
          timers, subs, runCalls, lastOp, arg, lastCleaned, lastVerdictOf,
          listeners, gone, nodeValue, params, delivered, commits, fired>>

\* what a watching subscriber and the timer bookkeeping add to the state
watch == <<delivered, commits, fired>>

(* ------------------------------ bounds --------------------------------- *)

\* longest text the pure functions are applied to
MaxLen == 4
\* most isEditing timers pending at once
MaxTimers == 1
\* largest magnitude increment/decrement may step to
MaxAbs == 2
\* subscribers of subscribe()
MaxSubs == 2

\* handler sets counted while the timers are watched
MaxCommits == 2

(* ----------------------------- text helpers ---------------------------- *)

Digits == <<"0", "1", "2", "3", "4", "5", "6", "7", "8", "9">>

IsDigit(c) == c \in {"0", "1", "2", "3", "4", "5", "6", "7", "8", "9"}

DigitVal(c) ==
  CASE c = "0" -> 0 [] c = "1" -> 1 [] c = "2" -> 2 [] c = "3" -> 3 [] c = "4" -> 4
    [] c = "5" -> 5 [] c = "6" -> 6 [] c = "7" -> 7 [] c = "8" -> 8 [] c = "9" -> 9

\* characters a user can type in the model: two digits, the sign, the
\* decimal point and a currency symbol (junk unless it is the prefix)
Alphabet == {"0", "5", "-", ".", "$"}

RECURSIVE TextsOfLen(_)
TextsOfLen(n) ==
  IF n = 0 THEN {<<>>}
  ELSE {Append(t, c) : t \in TextsOfLen(n - 1), c \in Alphabet}

\* every text of at most MaxLen characters
Texts == UNION {TextsOfLen(n) : n \in 0..MaxLen}

\* the texts typed into one instance: empty, above and far above the range
\* [-1, 1], below it, zero, negative zero, fractional, trailing point, no
\* digit, junk, stray signs
Inputs ==
  { <<>>, <<"5">>, <<"5", "0">>, <<"-", "5">>, <<"0">>, <<"-", "0">>,
    <<".", "5">>, <<"5", ".">>, <<"-">>, <<"$", "5">>, <<"5", "-">>,
    <<"-", "-", "5">>, <<"5", ".", "5", ".">> }

Count(s, c) == Len(SelectSeq(s, LAMBDA x : x = c))

Without(s, c) == SelectSeq(s, LAMBDA x : x # c)

StartsWith(s, p) == Len(p) <= Len(s) /\ SubSeq(s, 1, Len(p)) = p

EndsWith(s, q) == Len(q) <= Len(s) /\ SubSeq(s, Len(s) - Len(q) + 1, Len(s)) = q

IndexOf(s, c) == IF Count(s, c) = 0 THEN 0 ELSE CHOOSE i \in 1..Len(s) : s[i] = c /\ \A j \in 1..(i - 1) : s[j] # c

RECURSIVE Pow10(_)
Pow10(n) == IF n = 0 THEN 1 ELSE 10 * Pow10(n - 1)

\* length of the longest run of digits at the start of s
RECURSIVE DigitRun(_)
DigitRun(s) == IF s = <<>> \/ ~IsDigit(Head(s)) THEN 0 ELSE 1 + DigitRun(Tail(s))

RECURSIVE DigitsToNat(_)
DigitsToNat(s) == IF s = <<>> THEN 0 ELSE 10 * DigitsToNat(SubSeq(s, 1, Len(s) - 1)) + DigitVal(s[Len(s)])

RECURSIVE NatToDigits(_)
NatToDigits(n) == IF n < 10 THEN <<Digits[n + 1]>> ELSE Append(NatToDigits(n \div 10), Digits[(n % 10) + 1])

\* n as exactly w digits, zero-padded on the left (w = 0 gives the empty text)
RECURSIVE PadDigits(_, _)
PadDigits(n, w) == IF w = 0 THEN <<>> ELSE Append(PadDigits(n \div 10, w - 1), Digits[(n % 10) + 1])

(* ------------------------------ numbers -------------------------------- *)

NaN == [nan |-> TRUE, neg |-> FALSE, mag |-> 0, fd |-> 0]

\* JavaScript parseFloat on text without exponent or whitespace: an optional
\* '-', the longest digits[.digits] or .digits prefix; NaN without a digit
parseFloat(s) ==
  LET neg == s # <<>> /\ Head(s) = "-"
      body == IF neg THEN Tail(s) ELSE s
      il == DigitRun(body)
      rest == SubSeq(body, il + 1, Len(body))
      fl == IF rest # <<>> /\ Head(rest) = "." THEN DigitRun(Tail(rest)) ELSE 0
      ds == SubSeq(body, 1, il) \o SubSeq(rest, 2, fl + 1)
  IN IF il + fl = 0 THEN NaN
     ELSE [nan |-> FALSE, neg |-> neg, mag |-> DigitsToNat(ds), fd |-> fl]

Signed(num) == IF num.neg THEN 0 - num.mag ELSE num.mag

\* num < k and num > k for an integer k, without scaling k
NumLess(num, k) == (Signed(num) \div Pow10(num.fd)) < k

NumGreater(num, k) == (0 - ((0 - Signed(num)) \div Pow10(num.fd))) > k

\* the store's numericValue: parseFloat(raw), 0 when that is NaN
numericValue(r) ==
  LET num == parseFloat(r)
  IN IF num.nan THEN [nan |-> FALSE, neg |-> FALSE, mag |-> 0, fd |-> 0] ELSE num

\* the IEEE sum current + step is exact when current is a multiple of 0.5
ExactHalf(num) == (2 * num.mag) % Pow10(num.fd) = 0

\* current + step for an integer step; a zero sum is +0
NumAdd(num, step) ==
  LET sv == Signed(num) + step * Pow10(num.fd)
  IN [nan |-> FALSE, neg |-> sv < 0, mag |-> IF sv < 0 THEN 0 - sv ELSE sv, fd |-> num.fd]

RECURSIVE StripZeros(_)
StripZeros(s) == IF s # <<>> /\ s[Len(s)] = "0" THEN StripZeros(SubSeq(s, 1, Len(s) - 1)) ELSE s

\* Number.prototype.toString for a finite decimal below 1e21: shortest
\* digits, no trailing zeros, "0" for both zeros
numToString(num) ==
  LET p == Pow10(num.fd)
      frac == StripZeros(PadDigits(num.mag % p, num.fd))
  IN (IF num.neg /\ num.mag # 0 THEN <<"-">> ELSE <<>>)
     \o NatToDigits(num.mag \div p)
     \o (IF frac = <<>> THEN <<>> ELSE <<".">> \o frac)

(* ------------------------------ options -------------------------------- *)

\* Number.MIN_SAFE_INTEGER / Number.MAX_SAFE_INTEGER, the "no bound"
\* defaults; represented by the extreme 32-bit integers TLC has,
\* far outside every value the bounded model can reach
MIN_SAFE_INTEGER == -2147483647

MAX_SAFE_INTEGER == 2147483647

\* a structurally invalid BCP 47 tag, which Intl.NumberFormat rejects
BadLocale == "not_a_locale"

\* a currency code that is not three letters, which Intl.NumberFormat rejects
BadCurrency == "US"

DefaultOptions ==
  [locale |-> "en-US", useGrouping |-> TRUE, decimals |-> 0, currency |-> "USD",
   style |-> "decimal", allowNegative |-> TRUE, allowDecimal |-> TRUE,
   min |-> MIN_SAFE_INTEGER, max |-> MAX_SAFE_INTEGER,
   prefix |-> <<>>, suffix |-> <<>>, placeholder |-> <<>>, strict |-> FALSE]

\* { ...this.options, ...newOpts }
MergeOptions(o, newOpts) ==
  [f \in DOMAIN o |-> IF f \in DOMAIN newOpts THEN newOpts[f] ELSE o[f]]

(* ----------------------------- cleanInput ------------------------------ *)

StripPrefix(s, p) == IF p # <<>> /\ StartsWith(s, p) THEN SubSeq(s, Len(p) + 1, Len(s)) ELSE s

StripSuffix(s, q) == IF q # <<>> /\ EndsWith(s, q) THEN SubSeq(s, 1, Len(s) - Len(q)) ELSE s

\* the character class with '-' in it whatever allowNegative says
AllowedCharKeepsMinus(c, o) == IsDigit(c) \/ (o.allowDecimal /\ c = ".") \/ c = "-"

\* [^\d.-] with '.' and '-' only if allowed: the characters that survive
AllowedChar(c, o) == IsDigit(c) \/ (o.allowDecimal /\ c = ".") \/ (o.allowNegative /\ c = "-")

\* FixMinus without the else-if branch: a single stray '-' stays where it is
FixMinusKeepsStray(cleaned, input) ==
  IF Count(cleaned, "-") > 1
  THEN (IF StartsWith(input, <<"-">>) THEN <<"-">> ELSE <<>>) \o Without(cleaned, "-")
  ELSE cleaned

\* FixMinus whose first replace lacks the g flag: of several '-' only the
\* first is removed
FixMinusDropsFirstOnly(cleaned, input) ==
  IF Count(cleaned, "-") > 1
  THEN LET i == IndexOf(cleaned, "-")
       IN (IF StartsWith(input, <<"-">>) THEN <<"-">> ELSE <<>>)
          \o SubSeq(cleaned, 1, i - 1) \o SubSeq(cleaned, i + 1, Len(cleaned))
  ELSE IF Count(cleaned, "-") = 1 /\ cleaned[1] # "-" THEN Without(cleaned, "-")
  ELSE cleaned

\* "Ensure minus sign is only at the beginning"
FixMinus(cleaned, input) ==
  IF Count(cleaned, "-") > 1
  THEN (IF StartsWith(input, <<"-">>) THEN <<"-">> ELSE <<>>) \o Without(cleaned, "-")
  ELSE IF Count(cleaned, "-") = 1 /\ Head(cleaned) # "-" THEN Without(cleaned, "-")
  ELSE cleaned

\* FixDots joining the first two parts only: parts[0] + "." + parts[1]
FixDotsDropsLaterParts(cleaned) ==
  IF Count(cleaned, ".") > 1
  THEN LET i == IndexOf(cleaned, ".")
           after == SubSeq(cleaned, i + 1, Len(cleaned))
       IN SubSeq(cleaned, 1, i) \o SubSeq(after, 1, IndexOf(after, ".") - 1)
  ELSE cleaned

\* "Handle multiple decimal points": parts[0] + "." + parts.slice(1).join("")
FixDots(cleaned) ==
  IF Count(cleaned, ".") > 1
  THEN LET i == IndexOf(cleaned, ".")
       IN SubSeq(cleaned, 1, i) \o Without(SubSeq(cleaned, i + 1, Len(cleaned)), ".")
  ELSE cleaned

cleanInput(input, o) ==
  IF input = <<>> THEN <<>>
  ELSE LET unwrapped == StripSuffix(StripPrefix(input, o.prefix), o.suffix)
           kept == SelectSeq(unwrapped, LAMBDA c : AllowedChar(c, o))
           signed == IF o.allowNegative THEN FixMinus(kept, input) ELSE kept
       IN IF o.allowDecimal THEN FixDots(signed) ELSE signed

(* ---------------------------- validateInput ---------------------------- *)

NoMessage == [msg |-> "", bound |-> 0]

Valid == [isValid |-> TRUE, error |-> NoMessage, warning |-> NoMessage]

InvalidFormat == [isValid |-> FALSE, error |-> [msg |-> "Invalid number format", bound |-> 0], warning |-> NoMessage]

BelowMin(o) == [isValid |-> FALSE, error |-> [msg |-> "Value must be at least", bound |-> o.min], warning |-> NoMessage]

AboveMax(o) == [isValid |-> FALSE, error |-> [msg |-> "Value must be at most", bound |-> o.max], warning |-> NoMessage]

Rounded == [isValid |-> TRUE, error |-> NoMessage, warning |-> [msg |-> "Decimal places will be rounded", bound |-> 0]]

\* value.split(".")[1]: the text between the first and the second '.'
DecimalPart(value) ==
  LET i == IndexOf(value, ".")
      after == SubSeq(value, i + 1, Len(value))
      j == IndexOf(after, ".")
  IN IF j = 0 THEN after ELSE SubSeq(after, 1, j - 1)

\* validateInput with the max check ahead of the min check
validateInputMaxFirst(value, o) ==
  IF value = <<>> THEN Valid
  ELSE LET num == parseFloat(value)
       IN IF num.nan THEN InvalidFormat
          ELSE IF NumGreater(num, o.max) THEN AboveMax(o)
          ELSE IF NumLess(num, o.min) THEN BelowMin(o)
          ELSE IF o.decimals = 0 /\ Count(value, ".") > 0 /\ DecimalPart(value) # <<>> THEN Rounded
          ELSE Valid

\* validateInput reporting the rounding as an invalid result
validateInputRoundingBlocks(value, o) ==
  IF value = <<>> THEN Valid
  ELSE LET num == parseFloat(value)
       IN IF num.nan THEN InvalidFormat
          ELSE IF NumLess(num, o.min) THEN BelowMin(o)
          ELSE IF NumGreater(num, o.max) THEN AboveMax(o)
          ELSE IF o.decimals = 0 /\ Count(value, ".") > 0 /\ DecimalPart(value) # <<>>
               THEN [Rounded EXCEPT !.isValid = FALSE]
          ELSE Valid

\* private validateInput(value)
validateInput(value, o) ==
  IF value = <<>> THEN Valid
  ELSE LET num == parseFloat(value)
       IN IF num.nan THEN InvalidFormat
          ELSE IF NumLess(num, o.min) THEN BelowMin(o)
          ELSE IF NumGreater(num, o.max) THEN AboveMax(o)
          ELSE IF o.decimals = 0 /\ Count(value, ".") > 0 /\ DecimalPart(value) # <<>> THEN Rounded
          ELSE Valid

(* ----------------------------- formatNumber ---------------------------- *)

RECURSIVE GroupDigits(_)
GroupDigits(ds) ==
  IF Len(ds) <= 3 THEN ds
  ELSE GroupDigits(SubSeq(ds, 1, Len(ds) - 3)) \o <<",">> \o SubSeq(ds, Len(ds) - 2, Len(ds))

\* mag / 10^fd rounded to d fraction digits, halves away from zero, as a
\* natural scaled by 10^d
RoundHalfExpand(mag, fd, d) ==
  IF fd <= d THEN mag * Pow10(d - fd)
  ELSE LET p == Pow10(fd - d)
       IN IF 2 * (mag % p) >= p THEN (mag \div p) + 1 ELSE mag \div p

\* new Intl.NumberFormat(locale, formatOpts) throws a RangeError
IntlThrows(o) == o.locale = BadLocale \/ (o.style = "currency" /\ o.currency = BadCurrency)

\* new Intl.NumberFormat("en-US", {useGrouping, min/maxFractionDigits: decimals,
\* style, currency: "USD"}).format(x); the percent style shows 100 * x
IntlFormat(x, o) ==
  LET shown == IF o.style = "percent" THEN [x EXCEPT !.mag = 100 * x.mag] ELSE x
      q == RoundHalfExpand(shown.mag, shown.fd, o.decimals)
      p == Pow10(o.decimals)
      int == NatToDigits(q \div p)
  IN (IF x.neg THEN <<"-">> ELSE <<>>)
     \o (IF o.style = "currency" THEN <<"$">> ELSE <<>>)
     \o (IF o.useGrouping THEN GroupDigits(int) ELSE int)
     \o (IF o.decimals > 0 THEN <<".">> \o PadDigits(q % p, o.decimals) ELSE <<>>)
     \o (IF o.style = "percent" THEN <<"%">> ELSE <<>>)

\* formatNumber whose catch branch still wraps the text in prefix and suffix
formatNumberFallbackWrapped(value, o) ==
  IF value = <<>> THEN o.placeholder
  ELSE LET num == parseFloat(value)
       IN IF num.nan THEN o.placeholder
          ELSE IF IntlThrows(o) THEN o.prefix \o value \o o.suffix
          ELSE LET scaled == IF o.style = "percent" THEN [num EXCEPT !.fd = num.fd + 2] ELSE num
               IN o.prefix \o IntlFormat(scaled, o) \o o.suffix

\* formatNumber handing the parsed value itself to the percent formatter
formatNumberUnscaled(value, o) ==
  IF value = <<>> THEN o.placeholder
  ELSE LET num == parseFloat(value)
       IN IF num.nan THEN o.placeholder
          ELSE IF IntlThrows(o) THEN value
          ELSE o.prefix \o IntlFormat(num, o) \o o.suffix

\* private formatNumber(value), with en-US as the locale that formats
formatNumber(value, o) ==
  IF value = <<>> THEN o.placeholder
  ELSE LET num == parseFloat(value)
       IN IF num.nan THEN o.placeholder
          ELSE IF IntlThrows(o) THEN value
          ELSE LET scaled == IF o.style = "percent" THEN [num EXCEPT !.fd = num.fd + 2] ELSE num
               IN o.prefix \o IntlFormat(scaled, o) \o o.suffix

(* ------------------------------- stores -------------------------------- *)

\* the class's four writable stores as one record
Stores == [raw |-> raw, formatted |-> formatted, validation |-> validation, isEditing |-> isEditing]

\* the stores before the constructor body runs
InitialStores == [raw |-> <<>>, formatted |-> <<>>, validation |-> Valid, isEditing |-> FALSE]

Write(store, val) == [store |-> store, val |-> val]

\* writable.set: the store takes the value
RECURSIVE ApplyWrites(_, _)
ApplyWrites(st, ws) ==
  IF ws = <<>> THEN st
  ELSE ApplyWrites([st EXCEPT ![Head(ws).store] = Head(ws).val], Tail(ws))

\* writable.set calls the store's subscribers when the value is an object
\* (the validation record) or differs from the stored one
RECURSIVE Notifications(_, _)
Notifications(st, ws) ==
  IF ws = <<>> THEN 0
  ELSE (IF Head(ws).store = "validation" \/ st[Head(ws).store] # Head(ws).val THEN 1 ELSE 0)
       + Notifications(ApplyWrites(st, <<Head(ws)>>), Tail(ws))

\* the setter without the strict gate: it commits whatever the verdict
handlerWritesUngated(st, o, newVal) ==
  LET cleaned == cleanInput(newVal, o)
      v == validateInput(cleaned, o)
  IN <<Write("isEditing", TRUE), Write("validation", v),
       Write("raw", cleaned), Write("formatted", formatNumber(cleaned, o))>>

\* the setter publishing the verdict only when it commits
handlerWritesVerdictOnCommit(st, o, newVal) ==
  LET cleaned == cleanInput(newVal, o)
      v == validateInput(cleaned, o)
  IN <<Write("isEditing", TRUE)>>
     \o (IF v.isValid \/ ~o.strict
         THEN <<Write("validation", v), Write("raw", cleaned), Write("formatted", formatNumber(cleaned, o))>>
         ELSE <<>>)

\* the setter rejecting invalid text whether or not strict is set
handlerWritesAlwaysStrict(st, o, newVal) ==
  LET cleaned == cleanInput(newVal, o)
      v == validateInput(cleaned, o)
  IN <<Write("isEditing", TRUE), Write("validation", v)>>
     \o (IF v.isValid
         THEN <<Write("raw", cleaned), Write("formatted", formatNumber(cleaned, o))>>
         ELSE <<>>)

\* the setter gating on the verdict stored before this call
handlerWritesGateOnPrevious(st, o, newVal) ==
  LET cleaned == cleanInput(newVal, o)
      v == validateInput(cleaned, o)
  IN <<Write("isEditing", TRUE), Write("validation", v)>>
     \o (IF st.validation.isValid \/ ~o.strict
         THEN <<Write("raw", cleaned), Write("formatted", formatNumber(cleaned, o))>>
         ELSE <<>>)

\* set handler(newVal), without its timer
handlerWrites(st, o, newVal) ==
  LET cleaned == cleanInput(newVal, o)
      v == validateInput(cleaned, o)
  IN <<Write("isEditing", TRUE), Write("validation", v)>>
     \o (IF v.isValid \/ ~o.strict
         THEN <<Write("raw", cleaned), Write("formatted", formatNumber(cleaned, o))>>
         ELSE <<>>)

\* setOptions that re-validates but never re-formats
setOptionsWritesNoReformat(st, o) == <<Write("validation", validateInput(st.raw, o))>>

\* setOptions that first passes raw through cleanInput again
setOptionsWritesResanitize(st, o) ==
  LET cleaned == cleanInput(st.raw, o)
      v == validateInput(cleaned, o)
  IN <<Write("raw", cleaned), Write("validation", v)>>
     \o (IF v.isValid \/ ~o.strict THEN <<Write("formatted", formatNumber(cleaned, o))>> ELSE <<>>)

\* setOptions(newOpts) after the merge; o is the merged options
setOptionsWrites(st, o) ==
  LET v == validateInput(st.raw, o)
  IN <<Write("validation", v)>>
     \o (IF v.isValid \/ ~o.strict THEN <<Write("formatted", formatNumber(st.raw, o))>> ELSE <<>>)

resetWrites ==
  <<Write("raw", <<>>), Write("formatted", <<>>), Write("validation", Valid), Write("isEditing", FALSE)>>

(* ------------------------------- inputs -------------------------------- *)

\* the partial options passed to the constructor and to setOptions
OptionPatches ==
  { [strict |-> TRUE, min |-> -1, max |-> 1],
    [strict |-> FALSE],
    [min |-> 1, max |-> -1],
    [min |-> MIN_SAFE_INTEGER, max |-> MAX_SAFE_INTEGER],
    [placeholder |-> <<"_">>, decimals |-> 1, prefix |-> <<"$">>],
    [allowNegative |-> FALSE, allowDecimal |-> FALSE] }

Num(neg, mag, fd) == [nan |-> FALSE, neg |-> neg, mag |-> mag, fd |-> fd]

\* numbers passed to setValue: 5, -5, 0.5, 50
NumberArgs == {Num(FALSE, 5, 0), Num(TRUE, 5, 0), Num(FALSE, 5, 1), Num(FALSE, 50, 0)}

Steps == {1, 2}

(* ------------------------------- actions ------------------------------- *)

\* calls of subscriber s's run during the writes ws: one for each write that
\* notifies a store whose subscriber list still holds s's notify
RECURSIVE RunCalls(_, _, _)
RunCalls(s, st, ws) ==
  IF ws = <<>> THEN 0
  ELSE (IF s \in listeners[Head(ws).store] THEN Notifications(st, <<Head(ws)>>) ELSE 0)
       + RunCalls(s, ApplyWrites(st, <<Head(ws)>>), Tail(ws))

\* one operation: the store writes ws in order, each notifying the subscribers
OperateStores(op, ws, o, t, cleaned, verdictOf) ==
  \E st \in {ApplyWrites(Stores, ws)} :
     /\ raw' = st.raw
     /\ formatted' = st.formatted
     /\ validation' = st.validation
     /\ isEditing' = st.isEditing
     /\ options' = o
     /\ timers' = t
     /\ runCalls' = [s \in 1..MaxSubs |-> RunCalls(s, Stores, ws)]
     /\ lastOp' = op
     /\ lastCleaned' = cleaned
     /\ lastVerdictOf' = verdictOf
     /\ UNCHANGED <<subs, listeners, gone>>

\* an operation called on the instance directly, no element attached
Operate(op, ws, o, t, cleaned, verdictOf) ==
  /\ OperateStores(op, ws, o, t, cleaned, verdictOf)
  /\ UNCHANGED <<arg, nodeValue, params, watch>>

\* the subscriber lists of the four stores of a new instance
NoListeners == [store \in {"raw", "formatted", "validation", "isEditing"} |-> {}]

\* the action's params argument when it carries no options
NoParams == [hasOptions |-> FALSE, options |-> [strict |-> FALSE]]

\* new NumberFormatter(initial, opts), either argument possibly undefined
Construct(useOpts, p, hasInitial, initial) ==
    LET o == IF useOpts THEN MergeOptions(DefaultOptions, p) ELSE DefaultOptions
        st1 == IF useOpts THEN ApplyWrites(InitialStores, setOptionsWrites(InitialStores, o)) ELSE InitialStores
        st2 == IF hasInitial THEN ApplyWrites(st1, handlerWrites(st1, o, initial)) ELSE st1
    IN /\ options = o
       /\ raw = st2.raw
       /\ formatted = st2.formatted
       /\ validation = st2.validation
       /\ isEditing = st2.isEditing
       /\ timers = IF hasInitial THEN 1 ELSE 0
       /\ runCalls = [s \in 1..MaxSubs |-> 0]
       /\ lastOp = "constructor"
       /\ arg = <<>>
       /\ lastCleaned = IF hasInitial THEN cleanInput(initial, o) ELSE <<>>
       /\ lastVerdictOf = IF hasInitial THEN "input" ELSE IF useOpts THEN "raw" ELSE "none"

\* nobody has subscribed, and no handler set or timer is being counted
Unwatched ==
  /\ subs = {}
  /\ listeners = NoListeners
  /\ gone = {}
  /\ delivered = <<>>
  /\ commits = 0
  /\ fired = 0

\* an instance constructed on its own, bound to no element
Constructor(useOpts, p, hasInitial, initial) ==
  /\ Construct(useOpts, p, hasInitial, initial)
  /\ Unwatched
  /\ nodeValue = <<>>
  /\ params = NoParams

Init ==
  \E useOpts \in BOOLEAN, p \in OptionPatches, hasInitial \in BOOLEAN, initial \in Inputs :
    Constructor(useOpts, p, hasInitial, initial)

\* formatter.handler = newVal
CommitAs(op, newVal) ==
  /\ timers < MaxTimers
  /\ \E ws \in {handlerWrites(Stores, options, newVal)} :
       Operate(op, ws, options, timers + 1, cleanInput(newVal, options), "input")

HandlerSet(newVal) == CommitAs("handler", newVal)

\* setValue(value) with a number: handler = value.toString()
SetValueNumber(value) == CommitAs("setValue", numToString(value))

\* increment that clamps the sum to max before committing it
IncrementAsClamped(op, step) ==
  LET current == numericValue(raw)
      sum == NumAdd(current, step)
      newValue == IF NumGreater(sum, options.max) THEN Num(options.max < 0, IF options.max < 0 THEN 0 - options.max ELSE options.max, 0) ELSE sum
  IN /\ ExactHalf(current)
     /\ sum.mag <= MaxAbs * Pow10(sum.fd)
     /\ CommitAs(op, numToString(newValue))

\* increment(step): setValue(current + step)
IncrementAs(op, step) ==
  LET current == numericValue(raw)
      newValue == NumAdd(current, step)
  IN /\ ExactHalf(current)
     /\ newValue.mag <= MaxAbs * Pow10(newValue.fd)
     /\ CommitAs(op, numToString(newValue))

Increment(step) == IncrementAs("increment", step)

\* decrement(step): increment(-step)
Decrement(step) == IncrementAs("decrement", 0 - step)

SetOptions(newOpts) ==
  \E o \in {MergeOptions(options, newOpts)} :
    \E ws \in {setOptionsWrites(Stores, o)} :
      Operate("setOptions", ws, o, timers, lastCleaned, "raw")

Reset == Operate("reset", resetWrites, options, timers, lastCleaned, "reset")

\* the callback of setTimeout(() => this._isEditing.set(false), 100)
TimerFires ==
  /\ timers > 0
  /\ Operate("timer", <<Write("isEditing", FALSE)>>, options, timers - 1, lastCleaned, lastVerdictOf)

Next ==
  \/ \E newVal \in Inputs : HandlerSet(newVal)
  \/ \E value \in NumberArgs : SetValueNumber(value)
  \/ \E step \in Steps : Increment(step)
  \/ \E step \in Steps : Decrement(step)
  \/ \E newOpts \in OptionPatches : SetOptions(newOpts)
  \/ Reset
  \/ TimerFires

Spec == Init /\ [][Next]_vars

(* ----------------------------- subscribers ---------------------------- *)

\* the stores subscribe(run) subscribes notify to, in order
SubscribedStores == <<"raw", "formatted", "validation", "isEditing">>

\* calls of run inside subscribe(run): a store's subscribe calls its
\* callback at once with the current value, then the "Initial notification"
RegistrationCalls == Len(SubscribedStores) + 1

Subscribe(s) ==
  /\ s \notin subs \cup gone
  /\ subs' = subs \cup {s}
  /\ listeners' = [store \in DOMAIN listeners |->
                     IF \E i \in 1..Len(SubscribedStores) : SubscribedStores[i] = store
                     THEN listeners[store] \cup {s} ELSE listeners[store]]
  /\ runCalls' = [x \in 1..MaxSubs |-> IF x = s THEN RegistrationCalls ELSE 0]
  /\ lastOp' = "subscribe"
  /\ UNCHANGED <<options, raw, formatted, validation, isEditing, timers, arg, lastCleaned, lastVerdictOf,
                 gone, nodeValue, params, watch>>

\* the function subscribe returned: every store unsubscriber is called
\* an unsubscriber that calls the store unsubscribers pushed before the
\* last one only
UnsubscribeAllButLast(s) ==
  /\ s \in subs
  /\ subs' = subs \ {s}
  /\ gone' = gone \cup {s}
  /\ listeners' = [store \in DOMAIN listeners |->
                     IF store = SubscribedStores[Len(SubscribedStores)] THEN listeners[store]
                     ELSE listeners[store] \ {s}]
  /\ runCalls' = [x \in 1..MaxSubs |-> 0]
  /\ lastOp' = "unsubscribe"
  /\ UNCHANGED <<options, raw, formatted, validation, isEditing, timers, arg, lastCleaned, lastVerdictOf,
                 nodeValue, params, watch>>

\* the function subscribe returned: every store unsubscriber is called
Unsubscribe(s) ==
  /\ s \in subs
  /\ subs' = subs \ {s}
  /\ gone' = gone \cup {s}
  /\ listeners' = [store \in DOMAIN listeners |-> listeners[store] \ {s}]
  /\ runCalls' = [x \in 1..MaxSubs |-> 0]
  /\ lastOp' = "unsubscribe"
  /\ UNCHANGED <<options, raw, formatted, validation, isEditing, timers, arg, lastCleaned, lastVerdictOf,
                 nodeValue, params, watch>>

Focus == Operate("focus", <<Write("isEditing", TRUE)>>, options, timers, lastCleaned, lastVerdictOf)

Blur == Operate("blur", <<Write("isEditing", FALSE)>>, options, timers, lastCleaned, lastVerdictOf)

\* texts and options used while subscribers are attached
SubInputs == {<<>>, <<"5">>}

SubPatches == {[strict |-> TRUE, min |-> -1, max |-> 1], [placeholder |-> <<"_">>, decimals |-> 1, prefix |-> <<"$">>]}

InitSub == \E hasInitial \in BOOLEAN, initial \in SubInputs : Constructor(FALSE, [strict |-> FALSE], hasInitial, initial)

NextSub ==
  \/ \E s \in 1..MaxSubs : Subscribe(s)
  \/ \E s \in 1..MaxSubs : Unsubscribe(s)
  \/ \E newVal \in SubInputs : HandlerSet(newVal)
  \/ SetValueNumber(Num(FALSE, 5, 0))
  \/ Increment(1)
  \/ Decrement(1)
  \/ \E newOpts \in SubPatches : SetOptions(newOpts)
  \/ Reset
  \/ Focus
  \/ Blur
  \/ TimerFires

SpecSub == InitSub /\ [][NextSub]_vars

(* ------------------------------ DOM action ----------------------------- *)

\* the params the action is given and updated with
ActionParams ==
  { NoParams,
    [hasOptions |-> TRUE, options |-> [decimals |-> 1, prefix |-> <<"$">>]],
    [hasOptions |-> TRUE, options |-> [strict |-> TRUE, min |-> -1, max |-> 1]] }

\* node.value when the action starts and at an input event
ActionInputs == {<<>>, <<"5">>, <<"5", "0">>, <<".", "5">>, <<"$", "5">>}

\* numberFormatter(node, params): new NumberFormatter() without options, then
\* updateValue(node.value) if the element already holds text
InitAction ==
  \E text \in ActionInputs, p \in ActionParams :
    /\ Construct(FALSE, [strict |-> FALSE], text # <<>>, text)
    /\ Unwatched
    /\ nodeValue = formatted
    /\ params = p

\* handleInput: updateValue(e.target.value)
InputEvent(val) ==
  /\ timers < MaxTimers
  /\ \E ws \in {handlerWrites(Stores, options, val)} :
       OperateStores("input", ws, options, timers + 1, cleanInput(val, options), "input")
  /\ nodeValue' = formatted'
  /\ arg' = val
  /\ UNCHANGED <<params, watch>>

\* handleBlur: with params.options, setOptions and write formatted back
BlurEvent ==
  /\ IF params.hasOptions
     THEN /\ \E o \in {MergeOptions(options, params.options)} :
               \E ws \in {setOptionsWrites(Stores, o)} :
                 OperateStores("blurEvent", ws, o, timers, lastCleaned, "raw")
          /\ nodeValue' = formatted'
     ELSE /\ OperateStores("blurEvent", <<>>, options, timers, lastCleaned, lastVerdictOf)
          /\ UNCHANGED nodeValue
  /\ UNCHANGED <<arg, params, watch>>

\* update(newParams): params = newParams
Update(newParams) ==
  /\ params' = newParams
  /\ lastOp' = "update"
  /\ runCalls' = [s \in 1..MaxSubs |-> 0]
  /\ UNCHANGED <<options, raw, formatted, validation, isEditing, timers, subs, arg, lastCleaned,
                 lastVerdictOf, listeners, gone, nodeValue, watch>>

NextAction ==
  \/ \E val \in ActionInputs : InputEvent(val)
  \/ BlurEvent
  \/ \E newParams \in ActionParams : Update(newParams)
  \/ TimerFires

SpecAction == InitAction /\ [][NextAction]_vars

(* ------------------------ strict from the start ------------------------ *)

\* options given to the constructor with strict set
StrictPatches ==
  { [strict |-> TRUE, min |-> -1, max |-> 1],
    [strict |-> TRUE, min |-> 1, max |-> -1],
    [strict |-> TRUE, min |-> 0, max |-> 2, allowNegative |-> FALSE] }

InitStrict ==
  \E p \in StrictPatches, hasInitial \in BOOLEAN, initial \in Inputs :
    Constructor(TRUE, p, hasInitial, initial)

\* every operation but setOptions
NextStrict ==
  \/ \E newVal \in Inputs : HandlerSet(newVal)
  \/ \E value \in NumberArgs : SetValueNumber(value)
  \/ \E step \in Steps : Increment(step)
  \/ \E step \in Steps : Decrement(step)
  \/ Reset
  \/ TimerFires

SpecStrict == InitStrict /\ [][NextStrict]_vars

(* --------------------- snapshots and pending timers -------------------- *)

\* the subscriber whose snapshots are recorded
Watcher == 1

\* what notify hands to run: the stores, and the derived numericValue of raw
Snapshot(st) ==
  [raw |-> st.raw, formatted |-> st.formatted, value |-> numericValue(st.raw),
   validation |-> st.validation, isEditing |-> st.isEditing]

\* the snapshots subscriber s is handed during the writes ws, one after each
\* write that notifies a store it is subscribed to
RECURSIVE SnapshotsTo(_, _, _)
SnapshotsTo(s, st, ws) ==
  IF ws = <<>> THEN <<>>
  ELSE LET next == ApplyWrites(st, <<Head(ws)>>)
       IN (IF s \in listeners[Head(ws).store] /\ Notifications(st, <<Head(ws)>>) = 1
           THEN <<Snapshot(next)>> ELSE <<>>)
          \o SnapshotsTo(s, next, Tail(ws))

\* an operation with the watcher's snapshots recorded and the handler sets
\* (dc) and timer callbacks (df) counted
Watched(op, ws, o, t, cleaned, verdictOf, dc, df) ==
  /\ OperateStores(op, ws, o, t, cleaned, verdictOf)
  /\ delivered' = SnapshotsTo(Watcher, Stores, ws)
  /\ commits' = commits + dc
  /\ fired' = fired + df
  /\ UNCHANGED <<arg, nodeValue, params>>

EditInputs == {<<>>, <<"5">>}

EditPatches == {[strict |-> FALSE], [strict |-> TRUE, min |-> -1, max |-> 1], [decimals |-> 1, placeholder |-> <<"_">>]}

\* a new instance; the setter run by the constructor is its first handler set
InitEdit ==
  \E useOpts \in BOOLEAN, p \in EditPatches, hasInitial \in BOOLEAN, initial \in EditInputs :
    /\ Construct(useOpts, p, hasInitial, initial)
    /\ subs = {}
    /\ listeners = NoListeners
    /\ gone = {}
    /\ delivered = <<>>
    /\ commits = timers
    /\ fired = 0
    /\ nodeValue = <<>>
    /\ params = NoParams

\* subscribe(run): the four registrations and the initial notify each hand
\* run the current stores
EditSubscribe ==
  /\ Watcher \notin subs
  /\ subs' = subs \cup {Watcher}
  /\ listeners' = [store \in DOMAIN listeners |-> listeners[store] \cup {Watcher}]
  /\ runCalls' = [x \in 1..MaxSubs |-> IF x = Watcher THEN RegistrationCalls ELSE 0]
  /\ delivered' = [i \in 1..RegistrationCalls |-> Snapshot(Stores)]
  /\ lastOp' = "subscribe"
  /\ UNCHANGED <<options, raw, formatted, validation, isEditing, timers, arg, lastCleaned, lastVerdictOf,
                 gone, nodeValue, params, commits, fired>>

\* a setter that schedules no timer
EditHandlerSetNoTimer(newVal) ==
  /\ commits < MaxCommits
  /\ \E ws \in {handlerWrites(Stores, options, newVal)} :
       Watched("handler", ws, options, timers, cleanInput(newVal, options), "input", 1, 0)

\* formatter.handler = newVal
EditHandlerSet(newVal) ==
  /\ commits < MaxCommits
  /\ \E ws \in {handlerWrites(Stores, options, newVal)} :
       Watched("handler", ws, options, timers + 1, cleanInput(newVal, options), "input", 1, 0)

EditSetOptions(newOpts) ==
  \E o \in {MergeOptions(options, newOpts)} :
    \E ws \in {setOptionsWrites(Stores, o)} :
      Watched("setOptions", ws, o, timers, lastCleaned, "raw", 0, 0)

EditReset == Watched("reset", resetWrites, options, timers, lastCleaned, "reset", 0, 0)

EditFocus == Watched("focus", <<Write("isEditing", TRUE)>>, options, timers, lastCleaned, lastVerdictOf, 0, 0)

EditBlur == Watched("blur", <<Write("isEditing", FALSE)>>, options, timers, lastCleaned, lastVerdictOf, 0, 0)

\* a timer callback that leaves isEditing alone while a later timer is pending
EditTimerFiresDebounced ==
  /\ timers > 0
  /\ Watched("timer", IF timers = 1 THEN <<Write("isEditing", FALSE)>> ELSE <<>>,
             options, timers - 1, lastCleaned, lastVerdictOf, 0, 1)

\* the callback of setTimeout(() => this._isEditing.set(false), 100)
EditTimerFires ==
  /\ timers > 0
  /\ Watched("timer", <<Write("isEditing", FALSE)>>, options, timers - 1, lastCleaned, lastVerdictOf, 0, 1)

NextEdit ==
  \/ EditSubscribe
  \/ \E newVal \in EditInputs : EditHandlerSet(newVal)
  \/ \E newOpts \in EditPatches : EditSetOptions(newOpts)
  \/ EditReset
  \/ EditFocus
  \/ EditBlur
  \/ EditTimerFires

SpecEdit == InitEdit /\ [][NextEdit]_vars

\* every scheduled timer eventually fires
SpecEditFair == SpecEdit /\ WF_vars(EditTimerFires)

(* ------------------------ formatting failures -------------------------- *)

\* options with which the locale formatter is made to fail and to recover
IntlPatches ==
  { [locale |-> BadLocale],
    [locale |-> "en-US"],
    [style |-> "currency", currency |-> BadCurrency],
    [style |-> "decimal", currency |-> "USD"],
    [prefix |-> <<"$">>, suffix |-> <<"#">>, placeholder |-> <<"_">>],
    [strict |-> TRUE, min |-> -1, max |-> 1] }

IntlInputs == {<<>>, <<"5">>, <<"5", "0">>, <<"-">>, <<"$", "5">>, <<".", "5">>}

InitIntl ==
  \E useOpts \in BOOLEAN, p \in IntlPatches, hasInitial \in BOOLEAN, initial \in IntlInputs :
    Constructor(useOpts, p, hasInitial, initial)

NextIntl ==
  \/ \E newVal \in IntlInputs : HandlerSet(newVal)
  \/ \E newOpts \in IntlPatches : SetOptions(newOpts)
  \/ Reset
  \/ TimerFires

SpecIntl == InitIntl /\ [][NextIntl]_vars

(* ------------------------- one-shot formatting ------------------------- *)

\* format(value) with a string: formatNumber(cleanInput(value))
format(value, o) == formatNumber(cleanInput(value, o), o)

\* the stores of new NumberFormatter(value, o): setOptions(o), then the setter
formatValueStores(value, o) ==
  LET st1 == ApplyWrites(InitialStores, setOptionsWrites(InitialStores, o))
  IN ApplyWrites(st1, handlerWrites(st1, o, value))

\* static formatValue(value, o): the formatted of that instance
formatValue(value, o) == formatValueStores(value, o).formatted

\* options under which texts are formatted: every style, 0 or 1 decimals,
\* lenient with the default range or strict within [-1, 1]
FormatOptions ==
  { MergeOptions(DefaultOptions, [style |-> st, decimals |-> d, strict |-> g[1], min |-> g[2], max |-> g[3]]) :
      st \in {"decimal", "currency", "percent"}, d \in {0, 1},
      g \in {<<FALSE, MIN_SAFE_INTEGER, MAX_SAFE_INTEGER>>, <<TRUE, -1, 1>>} }

\* the texts formatted: every short text and the README's "0.85"
FormatTexts == Texts \cup {<<"0", ".", "8", "5">>}

\* options and a text about to be formatted
InitFormat ==
  /\ options \in FormatOptions
  /\ arg \in FormatTexts
  /\ raw = <<>>
  /\ formatted = <<>>
  /\ validation = Valid
  /\ isEditing = FALSE
  /\ timers = 0
  /\ Unwatched
  /\ nodeValue = <<>>
  /\ params = NoParams
  /\ runCalls = [s \in 1..MaxSubs |-> 0]
  /\ lastOp = "none"
  /\ lastCleaned = <<>>
  /\ lastVerdictOf = "none"

\* formatted = this.formatNumber(arg)
CallFormatNumber ==
  /\ lastOp = "none"
  /\ lastOp' = "formatNumber"
  /\ formatted' = formatNumber(arg, options)
  /\ UNCHANGED <<options, raw, validation, isEditing, timers, subs, runCalls, arg, lastCleaned, lastVerdictOf,
                 listeners, gone, nodeValue, params, watch>>

\* formatted = instance.format(arg)
CallFormat ==
  /\ lastOp = "none"
  /\ lastOp' = "format"
  /\ formatted' = format(arg, options)
  /\ UNCHANGED <<options, raw, validation, isEditing, timers, subs, runCalls, arg, lastCleaned, lastVerdictOf,
                 listeners, gone, nodeValue, params, watch>>

\* NumberFormatter.formatValue(arg, options): the stores are those of the
\* instance it constructed, whose setter left one timer pending
CallFormatValue ==
  /\ lastOp = "none"
  /\ lastOp' = "formatValue"
  /\ \E st \in {formatValueStores(arg, options)} :
       /\ raw' = st.raw
       /\ formatted' = st.formatted
       /\ validation' = st.validation
       /\ isEditing' = st.isEditing
  /\ timers' = 1
  /\ lastCleaned' = cleanInput(arg, options)
  /\ lastVerdictOf' = "input"
  /\ UNCHANGED <<options, subs, runCalls, arg, listeners, gone, nodeValue, params, watch>>

NextFormat == CallFormatNumber \/ CallFormat \/ CallFormatValue

SpecFormat == InitFormat /\ [][NextFormat]_vars

(* --------------------------- pure functions ---------------------------- *)

\* options under which cleanInput is applied to every text
CleanOptions ==
  { MergeOptions(DefaultOptions, [allowNegative |-> an, allowDecimal |-> ad, prefix |-> pre, suffix |-> suf]) :
      an \in BOOLEAN, ad \in BOOLEAN, pre \in {<<>>, <<"$">>, <<"-">>}, suf \in {<<>>, <<"$">>, <<".">>} }

\* options under which validateInput is applied to every text
ValidateOptions ==
  { MergeOptions(DefaultOptions, [min |-> r[1], max |-> r[2], decimals |-> d]) :
      r \in {<<MIN_SAFE_INTEGER, MAX_SAFE_INTEGER>>, <<-1, 1>>, <<1, -1>>}, d \in {0, 1} }

\* "--12", "12-34" and "1.2.3"
ExampleTexts == {<<"-", "-", "1", "2">>, <<"1", "2", "-", "3", "4">>, <<"1", ".", "2", ".", "3">>}

\* an instance with the given options and a text about to be passed to one
\* of the private functions
InitPure ==
  /\ options \in CleanOptions \cup ValidateOptions
  /\ arg \in Texts \cup ExampleTexts
  /\ raw = <<>>
  /\ formatted = <<>>
  /\ validation = Valid
  /\ isEditing = FALSE
  /\ timers = 0
  /\ Unwatched
  /\ nodeValue = <<>>
  /\ params = NoParams
  /\ runCalls = [s \in 1..MaxSubs |-> 0]
  /\ lastOp = "none"
  /\ lastCleaned = <<>>
  /\ lastVerdictOf = "none"

\* cleaned = this.cleanInput(arg)
CallCleanInput ==
  /\ lastOp = "none"
  /\ lastOp' = "cleanInput"
  /\ lastCleaned' = cleanInput(arg, options)
  /\ UNCHANGED <<options, raw, formatted, validation, isEditing, timers, subs, runCalls, arg, lastVerdictOf,
                 listeners, gone, nodeValue, params, watch>>

\* validation = this.validateInput(arg)
CallValidateInput ==
  /\ lastOp = "none"
  /\ lastOp' = "validateInput"
  /\ validation' = validateInput(arg, options)
  /\ UNCHANGED <<options, raw, formatted, isEditing, timers, subs, runCalls, arg, lastCleaned, lastVerdictOf,
                 listeners, gone, nodeValue, params, watch>>

NextPure == CallCleanInput \/ CallValidateInput

SpecPure == InitPure /\ [][NextPure]_vars

\* an operation on a constructed instance
InstanceStep == lastOp \notin {"none", "cleanInput", "validateInput"} /\ Next

\* the instance's operations together with the private functions on every text
SpecAll == (Init \/ InitPure) /\ [][InstanceStep \/ NextPure]_vars

(* ------------------------------- claims -------------------------------- *)

CommitOps == {"handler", "setValue", "increment", "decrement"}

\* C1: under strict, a handler set (or setValue) whose sanitized text fails
\* validation leaves raw and formatted exactly as they were, and validation
\* is invalid with an error
StrictRejectionIsNoOp ==
  [][(lastOp' \in {"handler", "setValue"} /\ options.strict
        /\ ~validateInput(lastCleaned', options).isValid)
      => (raw' = raw /\ formatted' = formatted
          /\ ~validation'.isValid /\ validation'.error # NoMessage)]_vars

\* a strict handler set was rejected and the earlier, non-empty raw is kept
StrictRejectionSeen ==
  /\ lastOp = "handler" /\ options.strict /\ ~validation.isValid
  /\ raw # <<>> /\ raw # lastCleaned

TextShape(s) ==
  /\ \A i \in 1..Len(s) : IsDigit(s[i]) \/ s[i] = "." \/ s[i] = "-"
  /\ Count(s, "-") <= 1
  /\ \A i \in 1..Len(s) : s[i] = "-" => i = 1
  /\ Count(s, ".") <= 1

\* C2: the output of cleanInput, and so raw in every reachable state, has
\* only characters of [0-9.-], at most one '-' and only at index 0, and at
\* most one '.'
CleanInputShape == TextShape(lastCleaned) /\ TextShape(raw)

\* cleanInput reduced a text with several '-' and several '.' to one of each
SeveralSignsCleaned ==
  /\ lastOp = "cleanInput" /\ Count(arg, "-") > 1 /\ Count(arg, ".") > 1
  /\ Count(lastCleaned, "-") = 1 /\ Count(lastCleaned, ".") = 1

\* C3 as stated: in every reachable state formatted is Format(raw, options)
FormattedIsFormatOfRaw == formatted = formatNumber(raw, options)

\* C3 amended: formatted is Format(raw, options) except after reset(), where
\* raw and formatted are both empty whatever the placeholder, and except
\* under strict while raw fails validation under the options in force
FormattedDerivable ==
  \/ formatted = formatNumber(raw, options)
  \/ raw = <<>> /\ formatted = <<>>
  \/ options.strict /\ ~validateInput(raw, options).isValid

\* setOptions re-rendered a non-empty raw with a prefix
ReformattedBySetOptions ==
  /\ lastOp = "setOptions" /\ raw # <<>> /\ options.prefix # <<>>
  /\ ~parseFloat(raw).nan /\ formatted = formatNumber(raw, options)

\* C4 as stated: validation is always the verdict on the text last passed
\* through the handler setter
ValidationIsOfLastInput == validation = validateInput(lastCleaned, options)

\* C4 amended: validation is the verdict of the most recent of: a handler
\* set (on its sanitized text, also when strict blocked the commit),
\* setOptions (on the existing raw under the merged options), reset (valid)
ValidationIsLastVerdict ==
  validation = IF lastVerdictOf = "input" THEN validateInput(lastCleaned, options)
               ELSE IF lastVerdictOf = "raw" THEN validateInput(raw, options)
               ELSE Valid

\* validation carries the verdict on a text strict kept out of raw
BlockedVerdictPublished ==
  /\ lastOp = "handler" /\ lastVerdictOf = "input" /\ options.strict /\ ~validation.isValid
  /\ raw # <<>> /\ raw # lastCleaned /\ validateInput(raw, options).isValid

\* C5: without strict every handler set commits: raw is the sanitized text,
\* formatted its rendering, validation its verdict, invalid included
NonStrictCommits ==
  (lastOp \in CommitOps /\ ~options.strict)
    => /\ raw = lastCleaned
       /\ formatted = formatNumber(raw, options)
       /\ validation = validateInput(lastCleaned, options)

\* an out-of-range text was committed without strict
InvalidCommitted ==
  /\ lastOp = "handler" /\ ~options.strict /\ ~validation.isValid
  /\ validation.error.msg = "Value must be at most"
  /\ raw = lastCleaned /\ formatted # options.placeholder

\* C6: validateInput answers with the first check that applies, in the
\* order empty, parse, min, max, rounding
ValidateFirstCheckWins ==
  lastOp = "validateInput" =>
    LET num == parseFloat(arg)
        below == ~num.nan /\ NumLess(num, options.min)
        above == ~num.nan /\ NumGreater(num, options.max)
    IN /\ arg = <<>> => validation = Valid
       /\ (arg # <<>> /\ num.nan) => validation = InvalidFormat
       /\ (arg # <<>> /\ below)
            => validation = [isValid |-> FALSE, warning |-> NoMessage,
                             error |-> [msg |-> "Value must be at least", bound |-> options.min]]
       /\ (arg # <<>> /\ ~below /\ above)
            => validation = [isValid |-> FALSE, warning |-> NoMessage,
                             error |-> [msg |-> "Value must be at most", bound |-> options.max]]
       /\ validation.warning # NoMessage
            => (arg # <<>> /\ ~num.nan /\ ~below /\ ~above /\ validation.isValid
                /\ options.decimals = 0)

\* a value below min and above max (min > max) was reported as below min
BelowMinWinsSeen ==
  /\ lastOp = "validateInput" /\ options.min > options.max
  /\ NumLess(parseFloat(arg), options.min) /\ NumGreater(parseFloat(arg), options.max)
  /\ validation = BelowMin(options)

\* the stores after a handler set of text, from the current state
AfterHandlerSet(text) == ApplyWrites(Stores, handlerWrites(Stores, options, text))

SteppedLike(sign) ==
  \E step \in Steps :
    LET text == numToString(NumAdd(numericValue(raw), sign * step))
    IN /\ lastCleaned' = cleanInput(text, options)
       /\ \E st \in {AfterHandlerSet(text)} :
            /\ raw' = st.raw /\ formatted' = st.formatted
            /\ validation' = st.validation /\ isEditing' = st.isEditing

\* C7: increment(step) and decrement(step) leave the stores as a handler set
\* of the decimal string of value + step (value - step) does; under strict a
\* step past max is rejected, raw keeps its value, and a raw within max
\* stays within max
SteppingIsHandlerSet ==
  [][/\ lastOp' = "increment" => SteppedLike(1)
     /\ lastOp' = "decrement" => SteppedLike(-1)
     /\ (lastOp' \in {"increment", "decrement"} /\ options.strict)
          => /\ NumGreater(parseFloat(lastCleaned'), options.max)
                  => (raw' = raw /\ ~validation'.isValid)
             /\ ~NumGreater(numericValue(raw), options.max)
                  => ~NumGreater(numericValue(raw'), options.max)]_vars

\* a strict increment past max was rejected, raw is still within max
StepPastMaxRejected ==
  /\ lastOp = "increment" /\ options.strict /\ ~validation.isValid
  /\ validation.error.msg = "Value must be at most"
  /\ raw # lastCleaned /\ raw # <<>> /\ ~NumGreater(numericValue(raw), options.max)

\* C8: setOptions merges the partial options, leaves raw and isEditing,
\* sets validation to the verdict on raw under the merged options and
\* re-formats only if that verdict is valid or strict is off
SetOptionsFrame ==
  [][lastOp' = "setOptions"
      => /\ \E newOpts \in OptionPatches : options' = MergeOptions(options, newOpts)
         /\ raw' = raw
         /\ isEditing' = isEditing
         /\ validation' = validateInput(raw, options')
         /\ formatted' = IF validation'.isValid \/ ~options'.strict
                         THEN formatNumber(raw, options') ELSE formatted]_vars

\* setOptions made raw invalid under strict and kept the earlier formatted
SetOptionsKeptFormatted ==
  /\ lastOp = "setOptions" /\ options.strict /\ ~validation.isValid
  /\ formatted # formatNumber(raw, options) /\ isEditing

\* the stores of new NumberFormatter(undefined, o)
FreshStores(o) ==
  LET merged == MergeOptions(DefaultOptions, o)
  IN ApplyWrites(InitialStores, setOptionsWrites(InitialStores, merged))

\* C9: after reset(), raw, formatted and validation are those of an instance
\* freshly constructed with the same options and no initial value
ResetRestoresConstruction ==
  lastOp = "reset"
    => /\ raw = FreshStores(options).raw
       /\ formatted = FreshStores(options).formatted
       /\ validation = FreshStores(options).validation

\* C10: subscribe(run) calls run exactly once before it returns
SubscribeDeliversOnce ==
  lastOp = "subscribe" => \E s \in subs : runCalls[s] = 1 /\ \A x \in 1..MaxSubs : x # s => runCalls[x] = 0

\* C11: once a subscriber's unsubscriber has been called, no later operation
\* (handler set, setValue, increment, decrement, setOptions, reset, focus,
\* blur, a pending timer firing) calls its run again, while every subscriber
\* still attached is called by each operation that sets validation or changes
\* a store.
UnsubscribedStaysSilent ==
  [][ /\ \A s \in gone' : runCalls'[s] = 0
      /\ (/\ lastOp' \notin {"subscribe", "unsubscribe"}
          /\ (Stores' # Stores \/ lastOp' \in CommitOps \cup {"setOptions", "reset"}))
         => \A s \in subs' : runCalls'[s] >= 1 ]_vars

\* a pending timer fired after one subscriber left, and the other was called
TimerAfterUnsubscribe ==
  /\ lastOp = "timer"
  /\ gone # {}
  /\ \E s \in subs : runCalls[s] = 1

\* what formatNumber leaves of a text when the locale formatter throws
FallbackText(value, o) == IF value = <<>> \/ parseFloat(value).nan THEN o.placeholder ELSE value

\* C12: while the locale formatter rejects the options (bad locale, or bad
\* currency under the currency style), a handler set still publishes the
\* verdict validateInput gives the sanitized text and, through the usual gate,
\* commits it to raw with the sanitized text itself, bare of prefix and
\* suffix, as formatted; setOptions likewise re-validates raw and shows it bare.
IntlFailureContained ==
  IntlThrows(options) =>
    /\ (lastOp \in CommitOps \/ (lastOp = "constructor" /\ lastVerdictOf = "input")) =>
         /\ validation = validateInput(lastCleaned, options)
         /\ (validation.isValid \/ ~options.strict) =>
              /\ raw = lastCleaned
              /\ formatted = FallbackText(lastCleaned, options)
    /\ lastOp = "setOptions" =>
         /\ validation = validateInput(raw, options)
         /\ (validation.isValid \/ ~options.strict) => formatted = FallbackText(raw, options)

\* "$5" typed under a bad locale with prefix "$": committed, shown as "5"
FallbackCommitted ==
  /\ lastOp = "handler"
  /\ IntlThrows(options)
  /\ options.prefix # <<>>
  /\ raw = <<"5">>
  /\ formatted = <<"5">>
  /\ validation = Valid

\* isValid(): get(this._validation).isValid
isValid == validation.isValid

\* C13: isValid() is true exactly when the current raw passes validateInput
\* under the current options, also after a strict rejection that left raw at
\* an earlier valid value.
IsValidJudgesRaw == isValid = validateInput(raw, options).isValid

\* an optional '-' followed by digits only, at least one
IsIntegerText(s) ==
  /\ s # <<>>
  /\ LET body == IF s[1] = "-" THEN Tail(s) ELSE s
     IN body # <<>> /\ \A i \in 1..Len(body) : IsDigit(body[i])

\* C14: under the percent style the number shown before '%' is the raw
\* number: formatNumber of an integer text n is the decimal-style rendering
\* of n followed by '%', and "50" with decimals 0 is "50%".
PercentShowsRaw ==
  (lastOp = "formatNumber" /\ options.style = "percent" /\ IsIntegerText(arg)) =>
    /\ formatted = formatNumber(arg, [options EXCEPT !.style = "decimal"]) \o <<"%">>
    /\ (arg = <<"5", "0">> /\ options.decimals = 0) => formatted = <<"5", "0", "%">>

\* "50" formatted as a percentage with no decimals
FiftyPercentSeen ==
  /\ lastOp = "formatNumber"
  /\ options.style = "percent"
  /\ options.decimals = 0
  /\ arg = <<"5", "0">>
  /\ formatted = <<"5", "0", "%">>

\* C15: under the percent style raw is a fraction of one: the instance built
\* from "0.85" with decimals 1 shows "85.0%".
PercentOfFraction ==
  (/\ lastOp = "formatValue"
   /\ options.style = "percent"
   /\ options.decimals = 1
   /\ arg = <<"0", ".", "8", "5">>) => formatted = <<"8", "5", ".", "0", "%">>

\* C17: formatValue(value, options) returns what format(value) of an instance
\* with those options returns, Format(Sanitize(value)), strict or not.
FormatValueIsFormat ==
  lastOp = "formatValue" => formatted = format(arg, options)

\* C16: in the DOM action the text an input event writes back to the element
\* is the typed text sanitized and formatted under the formatter's default
\* options, never under params.options, whatever inputs and blurs came before.
InputUsesDefaults ==
  lastOp = "input" => nodeValue = formatNumber(cleanInput(arg, DefaultOptions), DefaultOptions)

\* the sanitized text of the last commit parses to a number within [min, max]
LastCleanedInRange ==
  /\ lastCleaned # <<>>
  /\ ~parseFloat(lastCleaned).nan
  /\ ~NumLess(parseFloat(lastCleaned), options.min)
  /\ ~NumGreater(parseFloat(lastCleaned), options.max)

\* C18: with decimals 0, an in-range sanitized text with something after its
\* '.' gets {isValid: true, warning: "Decimal places will be rounded"} and no
\* error, and is committed to raw and formatted whether strict or not; a text
\* ending in a bare '.' gets no warning.
RoundingWarningCommits ==
  (lastOp \in CommitOps /\ options.decimals = 0 /\ LastCleanedInRange) =>
    /\ (\E i \in 1..(Len(lastCleaned) - 1) : lastCleaned[i] = ".") =>
         /\ validation = Rounded
         /\ raw = lastCleaned
         /\ formatted = formatNumber(lastCleaned, options)
    /\ lastCleaned[Len(lastCleaned)] = "." => validation = Valid

\* ".5" committed under strict with the rounding warning
RoundedCommittedUnderStrict ==
  /\ lastOp = "handler"
  /\ options.strict
  /\ options.decimals = 0
  /\ raw = <<".", "5">>
  /\ lastCleaned = raw
  /\ validation = Rounded
  /\ formatted = <<"1">>

\* text has '-' only if allowNegative and '.' only if allowDecimal
SignAndPointAllowed(text, o) ==
  /\ Count(text, "-") > 0 => o.allowNegative
  /\ Count(text, ".") > 0 => o.allowDecimal

\* C19 as stated: in every reachable state raw has '-' only if allowNegative
\* and '.' only if allowDecimal under the options now in force, also after
\* setOptions disallowed them while raw was negative or fractional.
RawAllowedNow == SignAndPointAllowed(raw, options)

\* C19: after a handler set, setValue, increment or decrement that passed the
\* strict gate, raw is the sanitized text and has '-' only if allowNegative and
\* '.' only if allowDecimal under the options of that commit.
RawAllowedAtCommit ==
  (lastOp \in CommitOps /\ (validation.isValid \/ ~options.strict)) =>
    /\ raw = lastCleaned
    /\ SignAndPointAllowed(raw, options)

\* decrement from 0 with negatives disallowed: "-1" is committed as "1"
SignStrippedAtCommit ==
  /\ lastOp = "decrement"
  /\ ~options.allowNegative
  /\ raw = <<"1">>

\* the text after prefix and suffix removal and stripping of the characters
\* the options do not allow
Stripped(input, o) ==
  SelectSeq(StripSuffix(StripPrefix(input, o.prefix), o.suffix), LAMBDA c : AllowedChar(c, o))

\* s with every '-' dropped
RECURSIVE DropMinus(_)
DropMinus(s) ==
  IF s = <<>> THEN <<>>
  ELSE IF Head(s) = "-" THEN DropMinus(Tail(s)) ELSE <<Head(s)>> \o DropMinus(Tail(s))

\* s with every '.' dropped except the first; seen says one was passed already
RECURSIVE KeepFirstDot(_, _)
KeepFirstDot(s, seen) ==
  IF s = <<>> THEN <<>>
  ELSE IF Head(s) = "." THEN (IF seen THEN <<>> ELSE <<".">>) \o KeepFirstDot(Tail(s), TRUE)
  ELSE <<Head(s)>> \o KeepFirstDot(Tail(s), seen)

\* the reference: two or more '-' all go and one comes back in front if the
\* original input began with '-'; a single '-' elsewhere than in front goes;
\* of two or more '.' the first stays
ReferenceClean(input, o) ==
  LET t == Stripped(input, o)
      n == Len(SelectSeq(t, LAMBDA c : c = "-"))
      signed == IF n >= 2 THEN (IF input[1] = "-" THEN <<"-">> ELSE <<>>) \o DropMinus(t)
                ELSE IF n = 1 /\ t[1] # "-" THEN DropMinus(t)
                ELSE t
  IN KeepFirstDot(signed, FALSE)

\* C20: with allowNegative and allowDecimal, cleanInput of every text is the
\* reference's result; "--12" gives "-12", "12-34" gives "1234" and "1.2.3"
\* gives "1.23".
CleanInputIsReference ==
  (lastOp = "cleanInput" /\ options.allowNegative /\ options.allowDecimal /\ arg # <<>>) =>
    /\ lastCleaned = ReferenceClean(arg, options)
    /\ (options.prefix = <<>> /\ options.suffix = <<>>) =>
         /\ arg = <<"-", "-", "1", "2">> => lastCleaned = <<"-", "1", "2">>
         /\ arg = <<"1", "2", "-", "3", "4">> => lastCleaned = <<"1", "2", "3", "4">>
         /\ arg = <<"1", ".", "2", ".", "3">> => lastCleaned = <<"1", ".", "2", "3">>

\* cleanInput("1.2.3") returned "1.23"
LaterDotsMerged ==
  /\ lastOp = "cleanInput"
  /\ arg = <<"1", ".", "2", ".", "3">>
  /\ lastCleaned = <<"1", ".", "2", "3">>

\* C21: a handler set turns isEditing true with its first store write, before
\* anything else changes, and adds one pending timer; a timer that fires sets
\* isEditing false whatever number of later timers is still pending, hands
\* nobody a snapshot when it finds isEditing already false, and changes
\* neither raw, formatted, validation nor the options.
ResetTimersDoNotWait ==
  [][ /\ lastOp' = "handler" =>
           /\ isEditing'
           /\ timers' = timers + 1
           /\ (Watcher \in subs /\ ~isEditing) =>
                delivered'[1] = Snapshot([Stores EXCEPT !.isEditing = TRUE])
      /\ lastOp' = "timer" =>
           /\ ~isEditing'
           /\ timers' = timers - 1
           /\ ~isEditing => delivered' = <<>>
           /\ <<raw', formatted', validation', options'>> = <<raw, formatted, validation, options>> ]_vars

\* two handler sets were pending together and the first timer has fired
FirstOfTwoTimersFired ==
  /\ lastOp = "timer"
  /\ commits = 2
  /\ fired = 1
  /\ timers = 1
  /\ ~isEditing

\* C22: every snapshot handed to a subscriber, also those handed in the
\* middle of a handler set or of setOptions, carries the formatted that
\* formatNumber gives its own raw under the options in force, and the value
\* that parseFloat gives its own raw (0 when unparsable).
NoTornSnapshot ==
  \A i \in 1..Len(delivered) :
    /\ delivered[i].formatted = formatNumber(delivered[i].raw, options)
    /\ delivered[i].value = numericValue(delivered[i].raw)

\* a > b for two parsed numbers
NumExceeds(a, b) == Signed(a) * Pow10(b.fd) > Signed(b) * Pow10(a.fd)

\* C23: decrement(step) with step > 0 never leaves a greater numeric value
\* than it found, and increment(step) never a smaller one, whatever the
\* options.
SteppingIsMonotone ==
  [][ /\ lastOp' = "decrement" => ~NumExceeds(numericValue(raw'), numericValue(raw))
      /\ lastOp' = "increment" => ~NumExceeds(numericValue(raw), numericValue(raw')) ]_vars

\* C24: with strict set by the constructor and the options never changed, raw
\* passes validateInput under those options in every reachable state, whatever
\* validation.isValid says.
RawValidUnderStrict == validateInput(raw, options).isValid

\* a text was rejected while raw held an earlier accepted value
RejectedOverValidRaw ==
  /\ lastOp \in CommitOps
  /\ ~validation.isValid
  /\ raw # <<>>
  /\ raw # lastCleaned

\* the text holds none of the characters cleanInput lets through
NoNumericChar(text) == \A i \in 1..Len(text) : ~IsDigit(text[i]) /\ text[i] \notin {".", "-"}

\* C25 as stated: cleanInput(cleanInput(x)) = cleanInput(x) for every text and
\* every options setting, also when prefix or suffix are made of digits, '.'
\* or '-'.
CleanInputIdempotent ==
  lastOp = "cleanInput" => cleanInput(lastCleaned, options) = lastCleaned

\* C25: cleanInput(cleanInput(x)) = cleanInput(x) for every text x when neither
\* prefix nor suffix holds a digit, a '.' or a '-'.
CleanInputIdempotentPlainAffixes ==
  (lastOp = "cleanInput" /\ NoNumericChar(options.prefix) /\ NoNumericChar(options.suffix)) =>
    cleanInput(lastCleaned, options) = lastCleaned

\* a text that cleanInput changed, under a prefix "$"
CleanedUnderPlainPrefix ==
  /\ lastOp = "cleanInput"
  /\ options.prefix = <<"$">>
  /\ NoNumericChar(options.suffix)
  /\ lastCleaned # arg
  /\ lastCleaned # <<>>

\* C26: once focus() has been called isEditing stays true until blur() or
\* reset(); stated for the event that follows focus(): unless it is blur() or
\* reset(), isEditing is still true after it.
FocusHoldsEditing ==
  [][ (lastOp = "focus" /\ lastOp' \notin {"blur", "reset"}) => isEditing' ]_vars

\* C27: the pending timers are the handler sets whose timer has not fired;
\* with finitely many handler sets and every timer eventually firing they
\* return to zero for good, a pending timer always leads to isEditing false,
\* and only a handler set or focus() turns isEditing true again, so after the
\* last of those isEditing becomes false and stays false.
EditingSettles ==
  /\ [](timers = commits - fired)
  /\ <>[](timers = 0)
  /\ (timers > 0) ~> ~isEditing
  /\ [][(~isEditing /\ isEditing') => lastOp' \in {"handler", "focus"}]_vars

\* two handler sets, both timers fired, isEditing false
AllTimersFired ==
  /\ lastOp = "timer"
  /\ commits = 2
  /\ fired = 2
  /\ timers = 0
  /\ ~isEditing

(* ------------------------ the display text typed back ------------------ *)

\* texts assigned to handler before the display text is read back
EchoInputs == {<<>>, <<"5">>, <<"-", "5">>, <<".", "5">>, <<"5", "0", "0", "0">>}

\* the options the instances are constructed with
EchoPatches ==
  { [strict |-> FALSE],
    [decimals |-> 1, allowDecimal |-> FALSE],
    [placeholder |-> <<"5">>, decimals |-> 1],
    [prefix |-> <<"$">>, suffix |-> <<"%">>, placeholder |-> <<"_">>],
    [prefix |-> <<"5">>, suffix |-> <<".">>],
    [style |-> "currency", decimals |-> 2],
    [style |-> "percent"],
    [strict |-> TRUE, min |-> -1, max |-> 1] }

InitEcho ==
  \E useOpts \in BOOLEAN, p \in EchoPatches, hasInitial \in BOOLEAN, initial \in EchoInputs :
    Constructor(useOpts, p, hasInitial, initial)

\* formatter.handler = newVal, with earlier timers possibly still pending
EchoCommit(op, newVal) ==
  /\ timers < MaxCommits
  /\ Len(raw) <= MaxLen
  /\ \E ws \in {handlerWrites(Stores, options, newVal)} :
       Operate(op, ws, options, timers + 1, cleanInput(newVal, options), "input")

EchoHandlerSet(newVal) == EchoCommit("handler", newVal)

\* formatter.handler = get(formatter.formatted): the text on display is what
\* the next input event reads from the element
Echo == EchoCommit("echo", formatted)

NextEcho ==
  \/ \E newVal \in EchoInputs : EchoHandlerSet(newVal)
  \/ Echo
  \/ TimerFires

SpecEcho == InitEcho /\ [][NextEcho]_vars

\* C28: after handler = x, performing handler = formatted leaves formatted
\* unchanged, in en-US and whatever prefix, suffix and placeholder hold.
FormattedIsFixedPoint ==
  [][ (lastOp = "handler" /\ lastOp' = "echo") => formatted' = formatted ]_vars

====
